---- MODULE Spec2Model ----
(***************************************************************************)
(* Model of the go-boilerplate backend: the user repository over the       *)
(* `users` table, the application error taxonomy, the request pipeline     *)
(* (middleware chain around the router), main with the lifecycle of the    *)
(* Server, and concurrent callers of the repository over the pool.         *)
(*                                                                         *)
(* Each repository method issues one SQL statement; a statement is one     *)
(* atomic step of the database.  NOW() reads the database clock `now`,      *)
(* which the environment advances (Tick) and which never runs backwards.   *)
(***************************************************************************)
EXTENDS Integers, Sequences, FiniteSets, TLC

VARIABLES
    users,      \* the rows of the users table
    seq,        \* last value handed out by the id sequence of the SERIAL column
    now,        \* the database clock read by NOW()
    call,       \* what the repository method in progress returned to its caller
    before,     \* history: the rows of the table when that method was called
    pristine,   \* history: a row some Create returned (any one), until Update or Delete is called for its id
    gone,       \* history: an id some Delete that returned nil was called with (any one), until the next Create
    built,      \* the AppError a caller obtained last, and how
    chain,      \* the decorators given to middlewares.Chain, outermost first
    mux,        \* the routes registered on the router's ServeMux, in registration order
    req,        \* the request being served
    phase,      \* "idle", "pre" (going in), "post" (coming back) or "panic" (unwinding)
    pos,        \* the stage control is at: 1..Len(chain) a decorator, Len(chain)+1 the router
    trace,      \* history: what ran for the request, in order
    resp,       \* the response written for the request
    invoked,    \* history: the route handlers the router ran for the request, in order
    served,     \* requests finished so far
    recovered,  \* history: panics the Recovery decorator caught so far
    pc,         \* where main is: "init", "loaded", "built", "waiting", "signalled", "stopped"
    loaded,     \* what config.LoadConfig returned to main
    made,       \* the components main has constructed
    db,         \* the connection pool: "none", "open" or "closed"
    listener,   \* the listening socket of the http.Server: "none", "open" or "closed"
    start,      \* Server.Start: its state, what ListenAndServe returned, what it returned
    stop,       \* Server.Stop: its state and what it returned
    conn,       \* per connection: "none", "active" (handler running), "done", "killed"
    elapsed,    \* the context handed to Stop has passed its deadline
    exit,       \* the process: "running", "returned" (main returned) or "fatal" (os.Exit(1))
    sess,       \* per concurrent caller of the repository: its call, where it is, what it got
    order       \* history: the callers in the order the database ran their statements, with the clock

repoVars == <<users, seq, now, call, before, pristine, gone>>
errsVars == <<built>>
httpVars == <<chain, mux, req, phase, pos, trace, resp, invoked, served, recovered>>
mainVars == <<pc, loaded, made, db, listener, start, stop, conn, elapsed, exit>>
sessVars == <<sess, order>>
vars == <<repoVars, errsVars, httpVars, mainVars, sessVars>>

(* ------------------------------ bounds --------------------------------- *)
MaxSeq == 3      \* values the users_id_seq sequence may hand out
MaxClock == 1    \* largest reading of the database clock
MaxLimit == 2    \* largest limit / offset passed to List
MaxRequests == 2 \* requests the server is followed through
MaxConns == 2    \* connections the listener is followed through
PoolSize == 1    \* connections the pool hands out at a time

Emails == {"a@x.io", "b@x.io", "c@x.io"}
Ids == 1..MaxSeq
InputIds == {0, 1}    \* user.ID values a caller passes to Create
Faults == {"none", "conn"}    \* "conn": the pool fails before the statement runs

(* ------------------------------ values --------------------------------- *)
\* models.User: one row of the users table
User(id, email, c, u) == [id |-> id, email |-> email, created_at |-> c, updated_at |-> u]

\* a Go error value: nil, or fmt.Errorf("<context>: %w", cause)
NoErr == [msg |-> "", cause |-> "nil"]

\* fmt.Errorf("<context>: %v", err): the text of the cause, not the cause
Wrap_Opaque(msg, cause) == [msg |-> msg, cause |-> "opaque"]

Wrap(msg, cause) == [msg |-> msg, cause |-> cause]

\* what a repository method returned: user is {} for a nil *User
Ret(op, id, email, limit, offset, user, list, err) ==
    [op |-> op, id |-> id, email |-> email, limit |-> limit, offset |-> offset,
     user |-> user, list |-> list, err |-> err]

\* the error the pool reports when the connection fails, else the statement's
PoolErr(fault, cause) == IF fault = "none" THEN cause ELSE "conn_error"

(* ------------------------------ errs ----------------------------------- *)
\* net/http status codes used by package errs
StatusBadRequest == 400
StatusUnauthorized == 401
StatusForbidden == 403
StatusNotFound == 404
StatusConflict == 409
StatusTooManyRequests == 429
StatusInternalServerError == 500

\* common error codes
ErrCodeValidation == "VALIDATION_ERROR"
ErrCodeNotFound == "NOT_FOUND"
ErrCodeUnauthorized == "UNAUTHORIZED"
ErrCodeForbidden == "FORBIDDEN"
ErrCodeInternal == "INTERNAL_ERROR"
ErrCodeBadRequest == "BAD_REQUEST"
ErrCodeConflict == "CONFLICT"
ErrCodeTooManyRequests == "TOO_MANY_REQUESTS"

\* errs.AppError
AppError(code, message, status) == [code |-> code, message |-> message, status |-> status]

\* predefined errors
ErrValidation == AppError(ErrCodeValidation, "Validation failed", StatusBadRequest)
ErrNotFound == AppError(ErrCodeNotFound, "Resource not found", StatusNotFound)
ErrUnauthorized == AppError(ErrCodeUnauthorized, "Unauthorized", StatusUnauthorized)
ErrForbidden == AppError(ErrCodeForbidden, "Forbidden", StatusForbidden)
ErrInternal == AppError(ErrCodeInternal, "Internal server error", StatusInternalServerError)
ErrBadRequest == AppError(ErrCodeBadRequest, "Bad request", StatusBadRequest)
ErrConflict == AppError(ErrCodeConflict, "Resource conflict", StatusConflict)
ErrTooManyRequests == AppError(ErrCodeTooManyRequests, "Too many requests", StatusTooManyRequests)

Predefined == {ErrValidation, ErrNotFound, ErrUnauthorized, ErrForbidden,
               ErrInternal, ErrBadRequest, ErrConflict, ErrTooManyRequests}

\* errs.New
New(code, message, status) == AppError(code, message, status)

\* errs.NewValidation
NewValidation(message) == AppError(ErrCodeValidation, message, StatusBadRequest)

\* a NewNotFound written with the status of its neighbour NewValidation
NewNotFound_BadRequest(resource) ==
    AppError(ErrCodeNotFound, resource \o " not found", StatusBadRequest)

\* errs.NewNotFound
NewNotFound(resource) == AppError(ErrCodeNotFound, resource \o " not found", StatusNotFound)

\* errs.NewInternal
NewInternal(message) == AppError(ErrCodeInternal, message, StatusInternalServerError)

\* the handler's classification of a repository failure into the taxonomy:
\* unique-violation -> Conflict, no-rows -> NotFound, anything else -> Internal;
\* errors.Is / errors.As look through the %w wrapping at the cause
Classify(err) ==
    CASE err.cause = "unique_violation" -> ErrConflict
      [] err.cause = "no_rows" -> ErrNotFound
      [] OTHER -> ErrInternal

(* --------------------------- SQL statements ---------------------------- *)
\* an INSERT that leaves updated_at to a stale value instead of NOW()
InsertUser_StaleStamp(rows, s, email, t) ==
    IF \E u \in rows : u.email = email
    THEN [users |-> rows, seq |-> s + 1, out |-> {}, cause |-> "unique_violation"]
    ELSE [users |-> rows \cup {User(s + 1, email, t, 0)}, seq |-> s + 1,
          out |-> {User(s + 1, email, t, 0)}, cause |-> "nil"]

\* an INSERT into a table whose email column lost its UNIQUE constraint
InsertUser_NoUnique(rows, s, email, t) ==
    [users |-> rows \cup {User(s + 1, email, t, t)}, seq |-> s + 1,
     out |-> {User(s + 1, email, t, t)}, cause |-> "nil"]

\* INSERT INTO users (email, created_at, updated_at) VALUES ($1, NOW(), NOW())
\* RETURNING ...; id defaults to nextval of the SERIAL sequence, which is
\* consumed before the UNIQUE(email) check
InsertUser(rows, s, email, t) ==
    IF \E u \in rows : u.email = email
    THEN [users |-> rows, seq |-> s + 1, out |-> {}, cause |-> "unique_violation"]
    ELSE [users |-> rows \cup {User(s + 1, email, t, t)}, seq |-> s + 1,
          out |-> {User(s + 1, email, t, t)}, cause |-> "nil"]

\* SELECT ... FROM users WHERE id = $1
SelectByID(rows, id) == {u \in rows : u.id = id}

\* SELECT ... FROM users WHERE email = $1
SelectByEmail(rows, email) == {u \in rows : u.email = email}

\* an upsert: the statement inserts the row when no row has the id
UpdateUser_Upsert(rows, id, email, t) ==
    LET hit == {u \in rows : u.id = id}
        new == IF hit = {} THEN {User(id, email, t, t)}
               ELSE {User(u.id, email, u.created_at, t) : u \in hit}
    IN  IF \E u \in rows \ hit : u.email = email
        THEN [users |-> rows, out |-> {}, cause |-> "unique_violation"]
        ELSE [users |-> (rows \ hit) \cup new, out |-> new, cause |-> "nil"]

\* an UPDATE that forgets SET updated_at = NOW()
UpdateUser_NoTouch(rows, id, email, t) ==
    LET hit == {u \in rows : u.id = id}
        new == {User(u.id, email, u.created_at, u.updated_at) : u \in hit}
    IN  IF \E u \in rows \ hit : hit # {} /\ u.email = email
        THEN [users |-> rows, out |-> {}, cause |-> "unique_violation"]
        ELSE [users |-> (rows \ hit) \cup new, out |-> new, cause |-> "nil"]

\* an UPDATE on a table whose email column lost its UNIQUE constraint
UpdateUser_NoUnique(rows, id, email, t) ==
    LET hit == {u \in rows : u.id = id}
        new == {User(u.id, email, u.created_at, t) : u \in hit}
    IN  [users |-> (rows \ hit) \cup new, out |-> new, cause |-> "nil"]

\* an UPDATE that writes only a row nobody has updated yet
\* (WHERE id = $1 AND updated_at = created_at)
UpdateUser_Versioned(rows, id, email, t) ==
    LET hit == {u \in rows : u.id = id /\ u.updated_at = u.created_at}
        new == {User(u.id, email, u.created_at, t) : u \in hit}
    IN  IF \E u \in rows \ hit : hit # {} /\ u.email = email
        THEN [users |-> rows, out |-> {}, cause |-> "unique_violation"]
        ELSE [users |-> (rows \ hit) \cup new, out |-> new, cause |-> "nil"]

\* UPDATE users SET email = $2, updated_at = NOW() WHERE id = $1 RETURNING ...
UpdateUser(rows, id, email, t) ==
    LET hit == {u \in rows : u.id = id}
        new == {User(u.id, email, u.created_at, t) : u \in hit}
    IN  IF \E u \in rows \ hit : hit # {} /\ u.email = email
        THEN [users |-> rows, out |-> {}, cause |-> "unique_violation"]
        ELSE [users |-> (rows \ hit) \cup new, out |-> new, cause |-> "nil"]

\* a DELETE whose WHERE clause compares with <= instead of =
DeleteUser_Range(rows, id) == {u \in rows : u.id > id}

\* DELETE FROM users WHERE id = $1
DeleteUser(rows, id) == {u \in rows : u.id # id}

\* the orders in which ORDER BY created_at DESC may deliver the rows: every
\* arrangement in which no row precedes one created later; rows with equal
\* created_at come in an order the statement does not fix
RowOrders(rows) ==
    LET n == Cardinality(rows)
    IN  {s \in [1..n -> rows] :
            /\ \A i, j \in 1..n : i # j => s[i] # s[j]
            /\ \A i, j \in 1..n : i < j => s[i].created_at >= s[j].created_at}

Min(a, b) == IF a < b THEN a ELSE b

\* LIMIT $1 OFFSET $2 applied to an ordered result
Page(s, limit, offset) == SubSeq(s, offset + 1, Min(offset + limit, Len(s)))

\* SELECT ... FROM users ORDER BY created_at DESC LIMIT $1 OFFSET $2
SelectPage(rows, limit, offset) == {Page(s, limit, offset) : s \in RowOrders(rows)}

\* QueryRow(...).Scan(...): pgx.ErrNoRows when the statement returned no row
ScanCause(out, cause) == IF cause # "nil" THEN cause
                         ELSE IF out = {} THEN "no_rows" ELSE "nil"

(* ------------------------- repository methods -------------------------- *)
\* no method in progress
Idle == Ret("none", 0, "", 0, 0, {}, <<>>, NoErr)

\* no AppError obtained yet
NoBuilt == [via |-> "none", code |-> "", status |-> 0, err |-> AppError("", "", 0)]

\* the repository over an empty table, sequence unused
RepoInit ==
    /\ users = {}
    /\ seq = 0
    /\ now = 0
    /\ call = Idle
    /\ before = {}
    /\ pristine = {}
    /\ gone = {}

ErrsInit == built = NoBuilt

\* the database clock advances
Tick ==
    /\ call = Idle
    /\ now < MaxClock
    /\ now' = now + 1
    /\ UNCHANGED <<users, seq, call, before, pristine, gone, errsVars, httpVars, mainVars, sessVars>>

\* the caller takes the result; the repository keeps nothing between calls
Return ==
    /\ call # Idle
    /\ call' = Idle
    /\ before' = users
    /\ UNCHANGED <<users, seq, now, pristine, gone, errsVars, httpVars, mainVars, sessVars>>

\* userRepository.Create; user.ID of the input is not sent to the database
Create(user, fault) ==
    LET r == InsertUser(users, seq, user.email, now)
        cause == PoolErr(fault, ScanCause(r.out, r.cause))
    IN  /\ call = Idle
        /\ seq < MaxSeq
        /\ before' = users
        /\ users' = IF fault = "conn" THEN users ELSE r.users
        /\ seq' = IF fault = "conn" THEN seq ELSE r.seq
        /\ call' = IF cause # "nil"
                   THEN Ret("Create", user.id, user.email, 0, 0, {}, <<>>,
                            Wrap("failed to create user", cause))
                   ELSE Ret("Create", user.id, user.email, 0, 0, r.out, <<>>, NoErr)
        /\ pristine' \in IF cause = "nil" THEN {pristine, r.out} ELSE {pristine}
        /\ gone' = {}
        /\ UNCHANGED <<now, errsVars, httpVars, mainVars, sessVars>>

\* userRepository.GetByID
GetByID(id, fault) ==
    LET out == SelectByID(users, id)
        cause == PoolErr(fault, ScanCause(out, "nil"))
    IN  /\ call = Idle
        /\ before' = users
        /\ call' = IF cause # "nil"
                   THEN Ret("GetByID", id, "", 0, 0, {}, <<>>,
                            Wrap("failed to get user by id", cause))
                   ELSE Ret("GetByID", id, "", 0, 0, out, <<>>, NoErr)
        /\ UNCHANGED <<users, seq, now, pristine, gone, errsVars, httpVars, mainVars, sessVars>>

\* userRepository.GetByEmail
GetByEmail(email, fault) ==
    LET out == SelectByEmail(users, email)
        cause == PoolErr(fault, ScanCause(out, "nil"))
    IN  /\ call = Idle
        /\ before' = users
        /\ call' = IF cause # "nil"
                   THEN Ret("GetByEmail", 0, email, 0, 0, {}, <<>>,
                            Wrap("failed to get user by email", cause))
                   ELSE Ret("GetByEmail", 0, email, 0, 0, out, <<>>, NoErr)
        /\ UNCHANGED <<users, seq, now, pristine, gone, errsVars, httpVars, mainVars, sessVars>>

\* userRepository.Update
Update(user, fault) ==
    LET r == UpdateUser(users, user.id, user.email, now)
        cause == PoolErr(fault, ScanCause(r.out, r.cause))
    IN  /\ call = Idle
        /\ before' = users
        /\ users' = IF fault = "conn" THEN users ELSE r.users
        /\ call' = IF cause # "nil"
                   THEN Ret("Update", user.id, user.email, 0, 0, {}, <<>>,
                            Wrap("failed to update user", cause))
                   ELSE Ret("Update", user.id, user.email, 0, 0, r.out, <<>>, NoErr)
        /\ pristine' = {u \in pristine : u.id # user.id}
        /\ UNCHANGED <<seq, now, gone, errsVars, httpVars, mainVars, sessVars>>

\* userRepository.Delete; Exec reports no error when no row matched
Delete(id, fault) ==
    LET cause == PoolErr(fault, "nil")
    IN  /\ call = Idle
        /\ before' = users
        /\ users' = IF fault = "conn" THEN users ELSE DeleteUser(users, id)
        /\ call' = IF cause # "nil"
                   THEN Ret("Delete", id, "", 0, 0, {}, <<>>,
                            Wrap("failed to delete user", cause))
                   ELSE Ret("Delete", id, "", 0, 0, {}, <<>>, NoErr)
        /\ pristine' = {u \in pristine : u.id # id}
        /\ gone' \in IF cause = "nil" THEN {gone, {id}} ELSE {gone}
        /\ UNCHANGED <<seq, now, errsVars, httpVars, mainVars, sessVars>>

\* userRepository.List: Query, then the rows.Next/Scan loop, then rows.Err
List(limit, offset, fault) ==
    /\ call = Idle
    /\ before' = users
    /\ IF fault = "conn"
       THEN call' = Ret("List", 0, "", limit, offset, {}, <<>>,
                        Wrap("failed to list users", "conn_error"))
       ELSE \E out \in SelectPage(users, limit, offset) :
                call' = Ret("List", 0, "", limit, offset, {}, out, NoErr)
    /\ UNCHANGED <<users, seq, now, pristine, gone, errsVars, httpVars, mainVars, sessVars>>

RepoNext ==
    \/ Tick
    \/ Return
    \/ \E id \in InputIds, e \in Emails, f \in Faults : Create([id |-> id, email |-> e], f)
    \/ \E id \in Ids, f \in Faults : GetByID(id, f)
    \/ \E e \in Emails, f \in Faults : GetByEmail(e, f)
    \/ \E id \in Ids, e \in Emails, f \in Faults : Update([id |-> id, email |-> e], f)
    \/ \E id \in Ids, f \in Faults : Delete(id, f)
    \/ \E l \in 0..MaxLimit, o \in 0..MaxLimit, f \in Faults : List(l, o, f)

(* ----------------------- callers of package errs ------------------------ *)
Codes == {ErrCodeValidation, ErrCodeNotFound, ErrCodeUnauthorized, ErrCodeForbidden,
          ErrCodeInternal, ErrCodeBadRequest, ErrCodeConflict, ErrCodeTooManyRequests}
Statuses == {StatusBadRequest, StatusUnauthorized, StatusForbidden, StatusNotFound,
             StatusConflict, StatusTooManyRequests, StatusInternalServerError}
CallerCodes == Codes \cup {"PAYMENT_REQUIRED"}    \* codes a caller may pass to New
CallerStatuses == Statuses \cup {402}          \* statuses a caller may pass to New
Messages == {"email is required", "boom"}
Resources == {"User", "Order"}

\* a caller uses one of the predefined errors
UsePredefined(e) ==
    /\ built' = [via |-> "predefined", code |-> e.code, status |-> e.status, err |-> e]
    /\ UNCHANGED <<repoVars, httpVars, mainVars, sessVars>>

\* a caller calls errs.New
CallNew(code, message, status) ==
    /\ built' = [via |-> "New", code |-> code, status |-> status,
              err |-> New(code, message, status)]
    /\ UNCHANGED <<repoVars, httpVars, mainVars, sessVars>>

\* a caller calls errs.NewValidation
CallNewValidation(message) ==
    /\ built' = [via |-> "NewValidation", code |-> "", status |-> 0,
              err |-> NewValidation(message)]
    /\ UNCHANGED <<repoVars, httpVars, mainVars, sessVars>>

\* a caller calls errs.NewNotFound
CallNewNotFound(resource) ==
    /\ built' = [via |-> "NewNotFound", code |-> "", status |-> 0,
              err |-> NewNotFound(resource)]
    /\ UNCHANGED <<repoVars, httpVars, mainVars, sessVars>>

\* a caller calls errs.NewInternal
CallNewInternal(message) ==
    /\ built' = [via |-> "NewInternal", code |-> "", status |-> 0,
              err |-> NewInternal(message)]
    /\ UNCHANGED <<repoVars, httpVars, mainVars, sessVars>>

ErrsNext ==
    \/ \E e \in Predefined : UsePredefined(e)
    \/ \E c \in CallerCodes, m \in Messages, st \in CallerStatuses : CallNew(c, m, st)
    \/ \E m \in Messages : CallNewValidation(m)
    \/ \E r \in Resources : CallNewNotFound(r)
    \/ \E m \in Messages : CallNewInternal(m)

(* --------------------------- request pipeline --------------------------- *)
\* a chain assembled with the logging decorator outside the recovery decorator
middlewareChain_LoggerFirst == <<"Logger", "Recovery", "CORS">>

\* main: middlewares.Chain(Recovery, Logger, CORS)
middlewareChain == <<"Recovery", "Logger", "CORS">>

\* cfg.Server.CORSAllowedOrigins of the run
CORSAllowedOrigins == {"https://app.example"}

Origins == {"https://app.example", "https://evil.example"}

\* a main that hands middlewares.CORS every origin instead of the configured list
corsOrigins_Any == Origins

\* main: the allow-list handed to middlewares.CORS
corsOrigins == CORSAllowedOrigins

Decorators == {"Recovery", "Logger", "CORS"}

\* every chain of distinct decorators, the empty one included
Chains == UNION {{c \in [1..n -> Decorators] : \A i, j \in 1..n : i # j => c[i] # c[j]} :
                 n \in 0..Cardinality(Decorators)}

Methods == {"GET", "HEAD", "POST", "OPTIONS"}
Paths == {"/health", "/api/v1/status", "/missing"}

NoReq == [method |-> "", path |-> "", origin |-> "", faultAt |-> 0]
NoResp == [status |-> 0, body |-> "", allowOrigin |-> "", writes |-> 0]

\* http.ResponseWriter: the first WriteHeader fixes the status
Write(w, status, body) ==
    [w EXCEPT !.status = IF w.writes = 0 THEN status ELSE @,
              !.body = @ \o body,
              !.writes = @ + 1]

\* the JSON body of an error response
ErrorBody(e) == "{\"code\":\"" \o e.code \o "\",\"message\":\"" \o e.message \o "\"}"

\* a SetupRoutes that registers each pattern with the other's handler
SetupRoutes_Swapped ==
    <<[method |-> "GET", path |-> "/health", handler |-> "statusHandler"],
      [method |-> "GET", path |-> "/api/v1/status", handler |-> "healthCheckHandler"]>>

\* Router.SetupRoutes: the patterns registered on the mux, in registration order
SetupRoutes ==
    <<[method |-> "GET", path |-> "/health", handler |-> "healthCheckHandler"],
      [method |-> "GET", path |-> "/api/v1/status", handler |-> "statusHandler"]>>

\* the registrations of SetupRoutes made in every order
RegistrationOrders ==
    {m \in [1..Len(SetupRoutes) -> {SetupRoutes[i] : i \in 1..Len(SetupRoutes)}] :
        \A i, j \in 1..Len(SetupRoutes) : i # j => m[i] # m[j]}

\* http.ServeMux: the registrations whose pattern matches method and path; a
\* GET pattern matches HEAD requests too
Match(m, r) ==
    {i \in 1..Len(m) :
        /\ m[i].path = r.path
        /\ \/ m[i].method = r.method
           \/ m[i].method = "GET" /\ r.method = "HEAD"}

\* http.ServeMux: the handlers it runs for the request, the one of the matching
\* pattern or none
Dispatch(m, r) ==
    IF Match(m, r) = {} THEN <<>> ELSE <<m[CHOOSE i \in Match(m, r) : TRUE].handler>>

\* Router.healthCheckHandler
healthCheckHandler(w) ==
    Write(w, 200, "{\"status\":\"healthy\",\"service\":\"go-boilerplate\"}")

\* Router.statusHandler
statusHandler(w) ==
    Write(w, 200, "{\"status\":\"running\",\"version\":\"1.0.0\"}")

\* Router.ServeHTTP: the mux dispatches on method and path; a registered path
\* asked with another method gets 405, any other path 404, both as plain text
ServeHTTP(w, r) ==
    IF Dispatch(mux, r) = <<"healthCheckHandler">> THEN healthCheckHandler(w)
    ELSE IF Dispatch(mux, r) = <<"statusHandler">> THEN statusHandler(w)
    ELSE IF \E i \in 1..Len(mux) : mux[i].path = r.path
         THEN Write(w, 405, "Method Not Allowed\n")
         ELSE Write(w, 404, "404 page not found\n")

\* middlewares.CORS, before the next stage: the origin is reflected only when
\* it is on the allow-list
CORSHeaders(w, r) ==
    IF r.origin \in corsOrigins THEN [w EXCEPT !.allowOrigin = r.origin] ELSE w

\* the stage of the innermost Recovery decorator outside stage p, 0 if none
Guard(c, p) ==
    LET above == {j \in 1..Len(c) : j < p /\ c[j] = "Recovery"}
    IN  IF above = {} THEN 0 ELSE CHOOSE j \in above : \A k \in above : k <= j

\* main: routers.New, SetupRoutes, the chain applied to the router, server.New
HttpInitMux(c, m) ==
    /\ chain = c
    /\ mux = m
    /\ req = NoReq
    /\ phase = "idle"
    /\ pos = 0
    /\ trace = <<>>
    /\ resp = NoResp
    /\ invoked = <<>>
    /\ served = 0
    /\ recovered = 0

HttpInit(c) == HttpInitMux(c, SetupRoutes)

\* the server hands a request to the composed handler
Accept(r) ==
    /\ phase = "idle"
    /\ served < MaxRequests
    /\ r.faultAt <= Len(chain) + 1
    /\ req' = r
    /\ phase' = "pre"
    /\ pos' = 1
    /\ trace' = <<>>
    /\ resp' = NoResp
    /\ invoked' = <<>>
    /\ UNCHANGED <<chain, mux, served, recovered, repoVars, errsVars, mainVars, sessVars>>

\* the stage control is at panics
Raise ==
    /\ phase = "pre"
    /\ req.faultAt = pos
    /\ phase' = "panic"
    /\ trace' = Append(trace, <<"panic", IF pos <= Len(chain) THEN chain[pos] ELSE "Router">>)
    /\ UNCHANGED <<chain, mux, invoked, req, pos, resp, served, recovered, repoVars, errsVars, mainVars, sessVars>>

\* middlewares.Recovery and middlewares.Logger before the next stage
Enter ==
    /\ phase = "pre"
    /\ pos <= Len(chain)
    /\ req.faultAt # pos
    /\ chain[pos] \in {"Recovery", "Logger"}
    /\ trace' = Append(trace, <<"pre", chain[pos]>>)
    /\ pos' = pos + 1
    /\ UNCHANGED <<chain, mux, invoked, req, phase, resp, served, recovered, repoVars, errsVars, mainVars, sessVars>>

\* middlewares.CORS before the next stage; OPTIONS is answered here with 204
CORS ==
    /\ phase = "pre"
    /\ pos <= Len(chain)
    /\ req.faultAt # pos
    /\ chain[pos] = "CORS"
    /\ IF req.method = "OPTIONS"
       THEN /\ resp' = Write(CORSHeaders(resp, req), 204, "")
            /\ trace' = Append(trace, <<"short", "CORS">>)
            /\ phase' = "post"
            /\ pos' = pos - 1
       ELSE /\ resp' = CORSHeaders(resp, req)
            /\ trace' = Append(trace, <<"pre", "CORS">>)
            /\ pos' = pos + 1
            /\ UNCHANGED phase
    /\ UNCHANGED <<chain, mux, invoked, req, served, recovered, repoVars, errsVars, mainVars, sessVars>>

\* the terminal handler: Router.ServeHTTP
Serve ==
    /\ phase = "pre"
    /\ pos = Len(chain) + 1
    /\ req.faultAt # pos
    /\ resp' = ServeHTTP(resp, req)
    /\ invoked' = invoked \o Dispatch(mux, req)
    /\ trace' = Append(trace, <<"handler", "Router">>)
    /\ phase' = "post"
    /\ pos' = Len(chain)
    /\ UNCHANGED <<chain, mux, req, served, recovered, repoVars, errsVars, mainVars, sessVars>>

\* a decorator after the next stage returned
Leave ==
    /\ phase = "post"
    /\ pos >= 1
    /\ trace' = Append(trace, <<"post", chain[pos]>>)
    /\ pos' = pos - 1
    /\ UNCHANGED <<chain, mux, invoked, req, phase, resp, served, recovered, repoVars, errsVars, mainVars, sessVars>>

\* middlewares.Recovery: the panic reaches the innermost Recovery outside the
\* stage that raised it, which answers 500 with the internal-error body
Recover ==
    /\ phase = "panic"
    /\ Guard(chain, pos) # 0
    /\ resp' = Write(resp, ErrInternal.status, ErrorBody(ErrInternal))
    /\ trace' = Append(trace, <<"recovered", "Recovery">>)
    /\ recovered' = recovered + 1
    /\ phase' = "post"
    /\ pos' = Guard(chain, pos) - 1
    /\ UNCHANGED <<chain, mux, invoked, req, served, repoVars, errsVars, mainVars, sessVars>>

\* no Recovery outside the stage: net/http recovers the panic of the handler
\* and closes the connection, nothing is written
Abort ==
    /\ phase = "panic"
    /\ Guard(chain, pos) = 0
    /\ trace' = Append(trace, <<"aborted", "net/http">>)
    /\ phase' = "idle"
    /\ pos' = 0
    /\ served' = served + 1
    /\ UNCHANGED <<chain, mux, invoked, req, resp, recovered, repoVars, errsVars, mainVars, sessVars>>

\* the composed handler returned
Finish ==
    /\ phase = "post"
    /\ pos = 0
    /\ phase' = "idle"
    /\ served' = served + 1
    /\ UNCHANGED <<chain, mux, invoked, req, pos, trace, resp, recovered, repoVars, errsVars, mainVars, sessVars>>

Requests == [method : Methods, path : Paths, origin : Origins, faultAt : 0..(Cardinality(Decorators) + 1)]

HttpNext ==
    \/ \E r \in Requests : Accept(r)
    \/ Raise
    \/ Enter
    \/ CORS
    \/ Serve
    \/ Leave
    \/ Recover
    \/ Abort
    \/ Finish

(* ------------------------- main and the Server -------------------------- *)
\* config.Config, reduced to two of its required fields
Configs == [port : {"", "8080"}, env : {"", "local"}]

\* what goes wrong while the environment is read: nothing, k.Load, k.Unmarshal
LoadFaults == {"none", "load", "unmarshal"}

\* libs.getErrorMessage for the tag "required"
getErrorMessage(field) == IF field = "port" THEN "Port is required" ELSE "Env is required"

\* libs.ValidateStruct: the map of lowercased field names to messages, nil (the
\* empty map) when the struct is valid
ValidateStruct(data) ==
    [f \in {g \in {"port", "env"} : data[g] = ""} |-> getErrorMessage(f)]

\* zerolog: a Fatal event ends the process (os.Exit(1)) when it is sent with
\* Msg, Msgf or Send; an event that is built and never sent does nothing
FatalEvent(sent) == IF sent THEN "fatal" ELSE "running"

\* Server.Start: what it returns for what ListenAndServe returned
StartReturn_Swallow(err) == NoErr

StartReturn(err) ==
    IF err # "nil" /\ err # "ErrServerClosed"
    THEN Wrap("failed to start HTTP server", err) ELSE NoErr

\* Server.Stop: what it returns for what Shutdown returned
StopReturn(err) ==
    IF err # "nil" THEN Wrap("failed to shutdown HTTP server", err) ELSE NoErr

NoConfig == [cfg |-> [port |-> "", env |-> ""], problems |-> <<>>, err |-> NoErr, returned |-> FALSE]
Active == {c \in 1..MaxConns : conn[c] = "active"}

\* the process ends: its connections go with it
Kill == [c \in 1..MaxConns |-> IF conn[c] = "active" THEN "killed" ELSE conn[c]]

MainInit ==
    /\ pc = "init"
    /\ loaded = NoConfig
    /\ made = {}
    /\ db = "none"
    /\ listener = "none"
    /\ start = [state |-> "idle", cause |-> "nil", err |-> NoErr]
    /\ stop = [state |-> "idle", err |-> NoErr]
    /\ conn = [c \in 1..MaxConns |-> "none"]
    /\ elapsed = FALSE
    /\ exit = "running"

\* config.LoadConfig: a failure of Load or Unmarshal is logged with a Fatal
\* event that is sent; the Fatal event for a validation failure is built with
\* Err(nil).Fields(err) and never sent, and the function goes on to return the
\* configuration with a nil error
LoadConfig(cfg, fault) ==
    /\ pc = "init" /\ exit = "running"
    /\ IF fault # "none"
       THEN /\ exit' = FatalEvent(TRUE)
            /\ UNCHANGED <<pc, loaded>>
       ELSE /\ exit' = IF ValidateStruct(cfg) # <<>> THEN FatalEvent(FALSE) ELSE exit
            /\ loaded' = [cfg |-> cfg, problems |-> ValidateStruct(cfg),
                          err |-> NoErr, returned |-> TRUE]
            /\ pc' = "loaded"
    /\ UNCHANGED <<made, db, listener, start, stop, conn, elapsed, repoVars, errsVars, httpVars, sessVars>>

\* main, from the check of LoadConfig's error to server.New; the pool is made
\* (database.New) only in a build with the database lines of main uncommented
Build(useDb, dbOk) ==
    /\ pc = "loaded" /\ exit = "running"
    /\ IF loaded.err # NoErr
       THEN exit' = "fatal" /\ UNCHANGED <<pc, made, db>>
       ELSE IF useDb /\ ~dbOk
       THEN /\ made' = {"loggerService", "logger"}
            /\ exit' = FatalEvent(TRUE)
            /\ UNCHANGED <<pc, db>>
       ELSE /\ made' = {"loggerService", "logger", "router", "middlewareChain", "server"}
                          \cup (IF useDb THEN {"db"} ELSE {})
            /\ db' = IF useDb THEN "open" ELSE "none"
            /\ pc' = "built"
            /\ UNCHANGED exit
    /\ UNCHANGED <<loaded, listener, start, stop, conn, elapsed, repoVars, errsVars, httpVars, sessVars>>

\* main: go srv.Start(), then main waits for a signal
Go ==
    /\ pc = "built" /\ exit = "running"
    /\ start' = [start EXCEPT !.state = "called"]
    /\ pc' = "waiting"
    /\ UNCHANGED <<loaded, made, db, listener, stop, conn, elapsed, exit, repoVars, errsVars, httpVars, sessVars>>

\* Server.Start: ListenAndServe binds the address and serves, or fails to bind,
\* or returns ErrServerClosed at once when Shutdown was called before it
Listen(bound) ==
    /\ start.state = "called" /\ exit = "running"
    /\ IF stop.state # "idle"
       THEN /\ start' = [state |-> "returned", cause |-> "ErrServerClosed",
                         err |-> StartReturn("ErrServerClosed")]
            /\ UNCHANGED listener
       ELSE IF bound
       THEN /\ start' = [start EXCEPT !.state = "serving"]
            /\ listener' = "open"
       ELSE /\ start' = [state |-> "returned", cause |-> "bind_error",
                         err |-> StartReturn("bind_error")]
            /\ UNCHANGED listener
    /\ UNCHANGED <<pc, loaded, made, db, stop, conn, elapsed, exit, repoVars, errsVars, httpVars, sessVars>>

\* Server.Start: Accept fails for good while serving and ListenAndServe returns
ListenerFault ==
    /\ start.state = "serving" /\ listener = "open" /\ exit = "running"
    /\ listener' = "closed"
    /\ start' = [state |-> "returned", cause |-> "accept_error",
                 err |-> StartReturn("accept_error")]
    /\ UNCHANGED <<pc, loaded, made, db, stop, conn, elapsed, exit, repoVars, errsVars, httpVars, sessVars>>

\* main, in the goroutine of Start: a non-nil error is logged with Fatal
StartFatal ==
    /\ start.state = "returned" /\ start.err # NoErr /\ exit = "running"
    /\ exit' = FatalEvent(TRUE)
    /\ conn' = Kill
    /\ UNCHANGED <<pc, loaded, made, db, listener, start, stop, elapsed, repoVars, errsVars, httpVars, sessVars>>

\* the listener accepts a connection and its request is handed to the handler
ConnAccept(c) ==
    /\ listener = "open" /\ exit = "running"
    /\ conn[c] = "none"
    /\ conn' = [conn EXCEPT ![c] = "active"]
    /\ UNCHANGED <<pc, loaded, made, db, listener, start, stop, elapsed, exit, repoVars, errsVars, httpVars, sessVars>>

\* the handler of a connection returns and the connection goes idle
HandlerDone(c) ==
    /\ conn[c] = "active" /\ exit = "running"
    /\ conn' = [conn EXCEPT ![c] = "done"]
    /\ UNCHANGED <<pc, loaded, made, db, listener, start, stop, elapsed, exit, repoVars, errsVars, httpVars, sessVars>>

\* main: SIGINT or SIGTERM arrives on quit
Signal ==
    /\ pc = "waiting" /\ exit = "running"
    /\ pc' = "signalled"
    /\ UNCHANGED <<loaded, made, db, listener, start, stop, conn, elapsed, exit, repoVars, errsVars, httpVars, sessVars>>

\* Server.Stop: Shutdown closes the listener, which makes ListenAndServe return
\* ErrServerClosed, and returns nil at once when no connection is active
Stop ==
    /\ pc = "signalled" /\ exit = "running"
    /\ listener' = IF listener = "open" THEN "closed" ELSE listener
    /\ start' = IF start.state = "serving"
                THEN [state |-> "returned", cause |-> "ErrServerClosed",
                      err |-> StartReturn("ErrServerClosed")]
                ELSE start
    /\ IF Active = {}
       THEN stop' = [state |-> "returned", err |-> StopReturn("nil")] /\ pc' = "stopped"
       ELSE stop' = [stop EXCEPT !.state = "draining"] /\ UNCHANGED pc
    /\ UNCHANGED <<loaded, made, db, conn, elapsed, exit, repoVars, errsVars, httpVars, sessVars>>

\* Server.Stop: Shutdown polls, finds no active connection and returns nil
Poll ==
    /\ stop.state = "draining" /\ exit = "running"
    /\ Active = {}
    /\ stop' = [state |-> "returned", err |-> StopReturn("nil")]
    /\ pc' = "stopped"
    /\ UNCHANGED <<loaded, made, db, listener, start, conn, elapsed, exit, repoVars, errsVars, httpVars, sessVars>>

\* the 30 seconds of the context handed to Stop pass
Deadline ==
    /\ stop.state = "draining" /\ exit = "running"
    /\ ~elapsed
    /\ elapsed' = TRUE
    /\ UNCHANGED <<pc, loaded, made, db, listener, start, stop, conn, exit, repoVars, errsVars, httpVars, sessVars>>

\* Server.Stop: Shutdown wakes on the done context between two polls and
\* returns its error; the connections are left as they are
StopTimeout ==
    /\ stop.state = "draining" /\ exit = "running"
    /\ elapsed
    /\ stop' = [state |-> "returned", err |-> StopReturn("deadline_exceeded")]
    /\ pc' = "stopped"
    /\ UNCHANGED <<loaded, made, db, listener, start, conn, elapsed, exit, repoVars, errsVars, httpVars, sessVars>>

\* main: Stop returned an error, which is logged with Fatal; os.Exit runs no
\* deferred call
StopFatal ==
    /\ pc = "stopped" /\ stop.err # NoErr /\ exit = "running"
    /\ exit' = FatalEvent(TRUE)
    /\ conn' = Kill
    /\ UNCHANGED <<pc, loaded, made, db, listener, start, stop, elapsed, repoVars, errsVars, httpVars, sessVars>>

\* main: Stop returned nil and main returns; the deferred calls run (cancel,
\* db.Close in a build with the database lines, loggerService.Shutdown)
MainReturn ==
    /\ pc = "stopped" /\ stop.err = NoErr /\ exit = "running"
    /\ db' = IF db = "open" THEN "closed" ELSE db
    /\ exit' = "returned"
    /\ conn' = Kill
    /\ UNCHANGED <<pc, loaded, made, listener, start, stop, elapsed, repoVars, errsVars, httpVars, sessVars>>

MainNext ==
    \/ \E cfg \in Configs, f \in LoadFaults : LoadConfig(cfg, f)
    \/ \E useDb \in BOOLEAN, dbOk \in BOOLEAN : Build(useDb, dbOk)
    \/ Go
    \/ \E bound \in BOOLEAN : Listen(bound)
    \/ ListenerFault
    \/ StartFatal
    \/ \E c \in 1..MaxConns : ConnAccept(c)
    \/ \E c \in 1..MaxConns : HandlerDone(c)
    \/ Signal
    \/ Stop
    \/ Poll
    \/ Deadline
    \/ StopTimeout
    \/ StopFatal
    \/ MainReturn

(* ------------------- concurrent callers and the pool -------------------- *)
Clients == {1, 2}

\* the context each method wraps a pool error with
OpMsg(op) ==
    CASE op = "Create" -> "failed to create user"
      [] op = "GetByID" -> "failed to get user by id"
      [] op = "GetByEmail" -> "failed to get user by email"
      [] op = "Update" -> "failed to update user"
      [] op = "Delete" -> "failed to delete user"
      [] OTHER -> "failed to list users"

\* the calls the concurrent callers make
Calls ==
    [op : {"Create"}, id : {0}, email : Emails, limit : {0}, offset : {0}]
    \cup [op : {"GetByID", "Delete"}, id : {1, 2}, email : {""}, limit : {0}, offset : {0}]
    \cup [op : {"GetByEmail"}, id : {0}, email : {"a@x.io", "c@x.io"}, limit : {0}, offset : {0}]
    \cup [op : {"Update"}, id : {1, 2}, email : Emails, limit : {0}, offset : {0}]
    \cup [op : {"List"}, id : {0}, email : {""}, limit : {0, MaxLimit}, offset : {0, 1}]

\* one call of each method
OneOfEach ==
    {k \in Calls :
        /\ k.op \in {"GetByID", "Update", "Delete"} => k.id = 1
        /\ k.op \in {"Create", "Update"} => k.email = "c@x.io"
        /\ k.op = "GetByEmail" => k.email = "a@x.io"
        /\ k.op = "List" => k.limit = MaxLimit /\ k.offset = 0}

NoCall == [op |-> "none", id |-> 0, email |-> "", limit |-> 0, offset |-> 0]
NoReply == [out |-> {}, page |-> <<>>, cause |-> "nil"]

\* a caller that has not called yet
NoSess == [state |-> "idle", call |-> NoCall, cancelled |-> FALSE, slot |-> FALSE,
           sent |-> 0, reply |-> NoReply, user |-> {}, list |-> <<>>, err |-> NoErr]

\* connections of the pool in use
Held == Cardinality({c \in Clients : sess[c].slot})

\* userRepository.List: a rows.Close that runs on the successful path only
CloseOnReturn_OkOnly(path) == path = "ok"

\* userRepository.List: defer rows.Close() runs on every return after Query
CloseOnReturn(path) == TRUE

\* the tables the callers find: rows created by earlier calls at clock 0
Tables == {{}, {User(1, "a@x.io", 0, 0)},
           {User(1, "a@x.io", 0, 0), User(2, "b@x.io", 0, 0)}}

SessInit ==
    /\ sess = [c \in Clients |-> NoSess]
    /\ order = <<>>

\* a method is entered with its context and makes its one call to the pool
\* (QueryRow, Exec or Query), which waits for a connection
Invoke(c, k) ==
    /\ sess[c].state = "idle"
    /\ sess' = [sess EXCEPT ![c] = [@ EXCEPT !.state = "called", !.call = k, !.sent = @ + 1]]
    /\ UNCHANGED <<order, repoVars, errsVars, httpVars, mainVars>>

\* the pool hands the call a connection and the statement is sent, or the pool
\* fails
Acquire(c, fault) ==
    /\ sess[c].state = "called" /\ ~sess[c].cancelled
    /\ IF fault = "conn"
       THEN sess' = [sess EXCEPT ![c] = [@ EXCEPT !.state = "returned",
                         !.err = Wrap(OpMsg(sess[c].call.op), PoolErr(fault, "nil"))]]
       ELSE /\ Held < PoolSize
            /\ sess' = [sess EXCEPT ![c] = [@ EXCEPT !.state = "outstanding", !.slot = TRUE]]
    /\ UNCHANGED <<order, repoVars, errsVars, httpVars, mainVars>>

\* the database runs the statement of a caller, in one step
Execute(c) ==
    LET k == sess[c].call
        ins == InsertUser(users, seq, k.email, now)
        upd == UpdateUser(users, k.id, k.email, now)
    IN  /\ sess[c].state = "outstanding"
        /\ k.op = "Create" => seq < MaxSeq
        /\ users' = CASE k.op = "Create" -> ins.users
                      [] k.op = "Update" -> upd.users
                      [] k.op = "Delete" -> DeleteUser(users, k.id)
                      [] OTHER -> users
        /\ seq' = IF k.op = "Create" THEN ins.seq ELSE seq
        /\ \E pg \in SelectPage(users, k.limit, k.offset) :
              sess' = [sess EXCEPT ![c] = [@ EXCEPT !.state = "replied", !.reply =
                  CASE k.op = "Create" -> [out |-> ins.out, page |-> <<>>, cause |-> ins.cause]
                    [] k.op = "Update" -> [out |-> upd.out, page |-> <<>>, cause |-> upd.cause]
                    [] k.op = "GetByID" ->
                         [out |-> SelectByID(users, k.id), page |-> <<>>, cause |-> "nil"]
                    [] k.op = "GetByEmail" ->
                         [out |-> SelectByEmail(users, k.email), page |-> <<>>, cause |-> "nil"]
                    [] k.op = "List" -> [out |-> {}, page |-> pg, cause |-> "nil"]
                    [] OTHER -> NoReply]]
        /\ order' = Append(order, [c |-> c, t |-> now])
        /\ UNCHANGED <<now, call, before, pristine, gone, errsVars, httpVars, mainVars>>

\* the reply reaches the caller: Scan (or Exec) ends the call and gives the
\* connection back; Query hands List the open cursor, which keeps it
Receive(c) ==
    LET k == sess[c].call
        r == sess[c].reply
        cause == IF k.op = "Delete" THEN r.cause ELSE ScanCause(r.out, r.cause)
    IN  /\ sess[c].state = "replied" /\ ~sess[c].cancelled
        /\ sess' = [sess EXCEPT ![c] =
              IF k.op = "List" THEN [@ EXCEPT !.state = "rows"]
              ELSE IF cause # "nil"
              THEN [@ EXCEPT !.state = "returned", !.slot = FALSE,
                             !.err = Wrap(OpMsg(k.op), cause)]
              ELSE [@ EXCEPT !.state = "returned", !.slot = FALSE, !.user = r.out]]
        /\ UNCHANGED <<order, repoVars, errsVars, httpVars, mainVars>>

\* userRepository.List after Query: the rows.Next loop ends with a Scan error,
\* or with rows.Err, or with the page; a cancelled context ends it with rows.Err
\* unless the rows had all been read
ListReturn(c, path) ==
    /\ sess[c].state = "rows"
    /\ path = "scan" => sess[c].reply.page # <<>> /\ ~sess[c].cancelled
    /\ sess' = [sess EXCEPT ![c] =
          [@ EXCEPT !.state = "returned",
                    !.slot = @ /\ ~CloseOnReturn(path),
                    !.list = IF path = "ok" THEN sess[c].reply.page ELSE <<>>,
                    !.err = CASE path = "scan" -> Wrap("failed to scan user", "scan_error")
                              [] path = "iter" ->
                                   Wrap("rows error", IF sess[c].cancelled
                                                      THEN "context_canceled" ELSE "rows_error")
                              [] OTHER -> NoErr]]
    /\ UNCHANGED <<order, repoVars, errsVars, httpVars, mainVars>>

\* the context of a call is cancelled: the client went away or a deadline passed
Cancel(c) ==
    /\ sess[c].state \in {"called", "outstanding", "replied", "rows"}
    /\ ~sess[c].cancelled
    /\ sess' = [sess EXCEPT ![c] = [@ EXCEPT !.cancelled = TRUE]]
    /\ UNCHANGED <<order, repoVars, errsVars, httpVars, mainVars>>

\* the pool call of a cancelled context ends with the context's error, whether
\* it was waiting for a connection or for the reply; the connection is given up
Abandon(c) ==
    /\ sess[c].state \in {"called", "outstanding", "replied"}
    /\ sess[c].cancelled
    /\ sess' = [sess EXCEPT ![c] = [@ EXCEPT !.state = "returned", !.slot = FALSE,
                      !.err = Wrap(OpMsg(sess[c].call.op), "context_canceled")]]
    /\ UNCHANGED <<order, repoVars, errsVars, httpVars, mainVars>>

\* the database clock advances while calls are under way
SessTick ==
    /\ now < MaxClock
    /\ now' = now + 1
    /\ UNCHANGED <<users, seq, call, before, pristine, gone, errsVars, httpVars, mainVars, sessVars>>

SessNext ==
    \/ SessTick
    \/ \E c \in Clients, k \in Calls : Invoke(c, k)
    \/ \E c \in Clients, f \in Faults : Acquire(c, f)
    \/ \E c \in Clients : Execute(c)
    \/ \E c \in Clients : Receive(c)
    \/ \E c \in Clients, path \in {"ok", "scan", "iter"} : ListReturn(c, path)
    \/ \E c \in Clients : Cancel(c)
    \/ \E c \in Clients : Abandon(c)

\* the callers under cancellation: one call of each method, the clock at rest
CancelNext ==
    \/ \E c \in Clients, k \in OneOfEach : Invoke(c, k)
    \/ \E c \in Clients, f \in Faults : Acquire(c, f)
    \/ \E c \in Clients : Execute(c)
    \/ \E c \in Clients : Receive(c)
    \/ \E c \in Clients, path \in {"ok", "scan", "iter"} : ListReturn(c, path)
    \/ \E c \in Clients : Cancel(c)
    \/ \E c \in Clients : Abandon(c)

(* --------------------------- specifications ----------------------------- *)
\* the state after main has assembled the server
Init == RepoInit /\ ErrsInit /\ HttpInit(middlewareChain) /\ MainInit /\ SessInit

\* the repository under calls of its six methods
Next == RepoNext

Spec == Init /\ [][Next]_vars

\* package errs under calls of its constructors
SpecErrs == Init /\ [][ErrsNext]_vars

\* the server as main assembles it, under requests
SpecServer == Init /\ [][HttpNext]_vars

\* the process, from the start of main to its exit
SpecMain == Init /\ [][MainNext]_vars

\* two callers of the repository at once, over a table earlier calls filled
PoolInit ==
    /\ \E t \in Tables : users = t /\ before = t /\ seq = Cardinality(t)
    /\ now = 0 /\ call = Idle /\ pristine = {} /\ gone = {}
    /\ ErrsInit /\ HttpInit(middlewareChain) /\ MainInit /\ SessInit

SpecPool == PoolInit /\ [][SessNext]_vars

\* the callers under cancellation, where a step that stays possible is taken:
\* the runtime schedules the goroutine of every call, the database answers,
\* pgx watches the context
FairPool ==
    /\ PoolInit /\ [][CancelNext]_vars
    /\ \A c \in Clients :
          /\ WF_vars(\E f \in {"none"} : Acquire(c, f))
          /\ WF_vars(Execute(c))
          /\ WF_vars(Receive(c))
          /\ WF_vars(\E path \in {"ok", "scan", "iter"} : ListReturn(c, path))
          /\ WF_vars(Abandon(c))

\* middlewares.Chain applied to any decorators
ChainInit == RepoInit /\ ErrsInit /\ MainInit /\ SessInit /\ \E c \in Chains : HttpInit(c)

SpecChain == ChainInit /\ [][HttpNext]_vars

\* the server of main over a router whose routes were registered in any order
RouterInit == RepoInit /\ ErrsInit /\ MainInit /\ SessInit /\ \E m \in RegistrationOrders : HttpInitMux(middlewareChain, m)

SpecRouter == RouterInit /\ [][HttpNext]_vars

(* ===================== properties of the repository ===================== *)
IdsOf(rows) == {u.id : u \in rows}
Reached == call.err.cause # "conn_error"    \* the statement ran on the database
Failed == call.err # NoErr /\ call.user = {} /\ call.list = <<>>

\* C1: Create with an email that is not stored succeeds and returns the new
\* row: its id comes from the id sequence (whatever user.ID the caller passed)
\* and is the id of no row stored before, its email is the one passed and
\* created_at = updated_at.  A later GetByID of that id, with no Update or
\* Delete of the id in between, returns the same id and email with
\* created_at = updated_at.
C1_CreateThenGetByID ==
    /\ (call.op = "Create" /\ Reached /\ ~\E u \in before : u.email = call.email) =>
          /\ call.err = NoErr
          /\ \E r \in users \ before :
                /\ call.user = {r}
                /\ r.id = seq /\ r.id \notin IdsOf(before)
                /\ r.email = call.email
                /\ r.created_at = r.updated_at
    /\ (call.op = "GetByID" /\ Reached) =>
          \A p \in pristine : p.id = call.id =>
              /\ call.err = NoErr
              /\ \E r \in call.user :
                    r.id = p.id /\ r.email = p.email /\ r.created_at = r.updated_at

\* C1 witness: a GetByID of a row an earlier Create returned, with another row
\* stored
C1_Witness ==
    /\ call.op = "GetByID" /\ call.err = NoErr
    /\ \E p \in pristine : p.id = call.id /\ call.user = {p}
    /\ Cardinality(users) >= 2

\* C2: Create with an email that is already stored fails and returns no user,
\* the table is left as it was, and the failure (a unique violation, whenever
\* the statement reached the database) classifies as Conflict, not Internal.
C2_DuplicateCreateConflicts ==
    (call.op = "Create" /\ \E u \in before : u.email = call.email) =>
        /\ Failed
        /\ users = before
        /\ Reached => /\ Classify(call.err).code = ErrCodeConflict
                      /\ Classify(call.err).status = StatusConflict
                      /\ Classify(call.err) # ErrInternal

\* C2 witness: a Create refused for its email
C2_Witness ==
    /\ call.op = "Create" /\ call.err.cause = "unique_violation"
    /\ \E u \in before : u.email = call.email
    /\ users = before /\ users # {}

\* C3: GetByID, GetByEmail and Update with a key that matches no row fail and
\* return no user, the failure classifies as NotFound (whenever the statement
\* reached the database), and the table is left as it was.
C3_MissingKeyNotFound ==
    LET missing == \/ call.op \in {"GetByID", "Update"} /\ call.id \notin IdsOf(before)
                   \/ call.op = "GetByEmail" /\ ~\E u \in before : u.email = call.email
    IN  missing =>
            /\ Failed
            /\ users = before
            /\ Reached => /\ Classify(call.err).code = ErrCodeNotFound
                          /\ Classify(call.err).status = StatusNotFound

\* C3 witness: an Update of an id no row has, on a table that holds rows
C3_Witness ==
    /\ call.op = "Update" /\ call.id \notin IdsOf(before) /\ before # {}
    /\ call.err.cause = "no_rows"

\* C4 as claimed: a successful Update sets the email passed and makes updated_at
\* strictly greater than before, id, created_at and all other rows unchanged.
C4_UpdateStrictlyAdvances ==
    (call.op = "Update" /\ call.err = NoErr) =>
        \E o \in before, r \in users :
            /\ call.user = {r}
            /\ o.id = call.id /\ r.id = o.id /\ r.created_at = o.created_at
            /\ r.email = call.email
            /\ r.updated_at > o.updated_at
            /\ users \ {r} = before \ {o}

\* C4 as amended: a successful Update sets the email passed and sets updated_at
\* to the reading of the database clock at the statement, which is never less
\* than its value before; id, created_at and all other rows are unchanged.
C4_UpdateRefreshes ==
    (call.op = "Update" /\ call.err = NoErr) =>
        \E o \in before, r \in users :
            /\ call.user = {r}
            /\ o.id = call.id /\ r.id = o.id /\ r.created_at = o.created_at
            /\ r.email = call.email
            /\ r.updated_at = now /\ r.updated_at >= o.updated_at
            /\ users \ {r} = before \ {o}

\* C4 witness: an Update that changed the email and moved updated_at forward,
\* next to another row
C4_Witness ==
    /\ call.op = "Update" /\ call.err = NoErr
    /\ \E o \in before, r \in users :
          /\ call.user = {r} /\ o.id = r.id
          /\ r.email # o.email /\ r.updated_at > o.updated_at
    /\ Cardinality(users) >= 2

\* C5: Delete returns nil whether or not a row has the id (the pool failing is
\* its only error), removes the row with that id and no other, a second Delete
\* of the id would change nothing, and a GetByID of the id after it, with no
\* Create in between, fails as NotFound.
C5_DeleteIdempotent ==
    /\ call.op = "Delete" =>
          /\ Reached => call.err = NoErr
          /\ call.err = NoErr =>
                /\ users = {u \in before : u.id # call.id}
                /\ DeleteUser(users, call.id) = users
          /\ call.err # NoErr => users = before
    /\ (call.op = "GetByID" /\ call.id \in gone) =>
          /\ Failed
          /\ Reached => Classify(call.err).code = ErrCodeNotFound

\* C5 witness: a GetByID of a deleted id, not found, while other rows remain
C5_Witness ==
    /\ call.op = "GetByID" /\ call.id \in gone
    /\ call.id <= seq /\ call.err.cause = "no_rows"
    /\ users # {}

\* the rows in creation order, most recent first; ids are handed out in
\* creation order
RECURSIVE NewestFirst(_)
NewestFirst(rows) ==
    IF rows = {} THEN <<>>
    ELSE LET top == CHOOSE u \in rows : \A v \in rows : v.id <= u.id
         IN  <<top>> \o NewestFirst(rows \ {top})

\* C6: List(limit, offset) returns the rows at positions offset+1 .. offset+limit
\* of all rows ordered most recently created first, and the empty list without
\* error when offset is at or past the number of rows.
C6_ListNewestFirst ==
    (call.op = "List" /\ call.err = NoErr) =>
        call.list = Page(NewestFirst(users), call.limit, call.offset)

\* C7: no two rows share an id, no two rows share an email, every row has
\* updated_at >= created_at, a row keeps its id (and created_at) until it is
\* deleted, and an Update to the email of another row fails and changes nothing.
C7_StorageInvariants ==
    /\ \A u, v \in users : (u.id = v.id \/ u.email = v.email) => u = v
    /\ \A u \in users : u.updated_at >= u.created_at /\ u.id \in 1..seq
    /\ \A o \in before \ users :
          \/ call.op = "Delete" /\ call.id = o.id
          \/ /\ call.op = "Update" /\ call.id = o.id
             /\ \E r \in users : r.id = o.id /\ r.created_at = o.created_at
    /\ IdsOf(users) \ IdsOf(before) # {} => call.op = "Create"
    /\ (call.op = "Update" /\ \E o, x \in before :
            o.id = call.id /\ x.id # call.id /\ x.email = call.email) =>
          Failed /\ users = before

\* C7 witness: an Update refused because another row has the email
C7_Witness ==
    /\ call.op = "Update" /\ call.err.cause = "unique_violation"
    /\ \E o, x \in before : o.id = call.id /\ x.id # call.id /\ x.email = call.email
    /\ users = before

(* ======================= properties of package errs ===================== *)
\* the canonical status of each code of the fixed set
CanonicalStatus(code) ==
    CASE code = "VALIDATION_ERROR" -> 400
      [] code = "NOT_FOUND" -> 404
      [] code = "UNAUTHORIZED" -> 401
      [] code = "FORBIDDEN" -> 403
      [] code = "INTERNAL_ERROR" -> 500
      [] code = "BAD_REQUEST" -> 400
      [] code = "CONFLICT" -> 409
      [] code = "TOO_MANY_REQUESTS" -> 429
      [] OTHER -> 0

FixedCodes == {"VALIDATION_ERROR", "NOT_FOUND", "UNAUTHORIZED", "FORBIDDEN",
               "INTERNAL_ERROR", "BAD_REQUEST", "CONFLICT", "TOO_MANY_REQUESTS"}

Canonical(e) == e.code \in FixedCodes /\ e.status = CanonicalStatus(e.code)

\* C8 as claimed: every AppError obtained from the predefined values, New,
\* NewValidation, NewNotFound or NewInternal has a code of the fixed set and
\* the canonical status of that code.
C8_EveryAppErrorCanonical ==
    built.via # "none" => Canonical(built.err)

\* C8 as amended: every predefined AppError and every AppError made by
\* NewValidation, NewNotFound or NewInternal has a code of the fixed set and
\* the canonical status of that code; New stores the code and the status its
\* caller passes, unchecked.
C8_DerivedAppErrorsCanonical ==
    /\ built.via \in {"predefined", "NewValidation", "NewNotFound", "NewInternal"} =>
          Canonical(built.err)
    /\ \A e \in Predefined : Canonical(e)
    /\ \A e1, e2 \in Predefined : e1.code = e2.code => e1 = e2
    /\ built.via = "New" => built.err.code = built.code /\ built.err.status = built.status

\* C8 witness: NewNotFound("User") built a NOT_FOUND error
C8_Witness ==
    /\ built.via = "NewNotFound"
    /\ built.err = [code |-> "NOT_FOUND", message |-> "User not found", status |-> 404]

(* ==================== properties of the request pipeline ================ *)
Events == {trace[i] : i \in 1..Len(trace)}
Finished == phase = "idle" /\ req # NoReq
Plain == ~\E e \in Events : e[1] \in {"panic", "short"}    \* nothing cut the request short

RECURSIVE Reverse(_)
Reverse(q) == IF q = <<>> THEN <<>> ELSE Append(Reverse(Tail(q)), Head(q))

\* pre-logic of d1 .. dn, the terminal handler, post-logic of dn .. d1
Onion(c) ==
    [i \in 1..Len(c) |-> <<"pre", c[i]>>] \o <<<<"handler", "Router">>>>
        \o Reverse([i \in 1..Len(c) |-> <<"post", c[i]>>])

\* C9: a request that no decorator cuts short runs the pre-logic of d1 .. dn in
\* that order, then the terminal handler once, then the post-logic of dn .. d1;
\* in the chain main assembles, Recovery runs first and CORS last before the
\* router.
C9_OnionOrder ==
    /\ Plain => SubSeq(Onion(chain), 1, Len(trace)) = trace
    /\ (Plain /\ Finished) => trace = Onion(chain)
    /\ (Plain /\ Finished /\ chain = middlewareChain) =>
          /\ trace[1] = <<"pre", "Recovery">>
          /\ trace[Len(chain)] = <<"pre", "CORS">>
          /\ trace[Len(chain) + 1] = <<"handler", "Router">>
          /\ trace[Len(trace)] = <<"post", "Recovery">>

\* C9 witness: a GET through the chain of main ran all seven steps
C9_Witness ==
    /\ Finished /\ Plain /\ chain = middlewareChain
    /\ Len(trace) = 7 /\ resp.status = 200

ThroughCORS == \E e \in Events : e[2] = "CORS" /\ e[1] \in {"pre", "short"}
Preflighted == <<"short", "CORS">> \in Events

\* C11: the response of a request that went through the CORS decorator carries
\* Access-Control-Allow-Origin equal to the request's origin when that origin is
\* on the configured allow-list and carries none otherwise, whatever stage
\* writes the body; an OPTIONS request that reaches the decorator is answered
\* there with an empty 204 and neither a later decorator nor the router runs.
C11_CORSAllowList ==
    /\ resp.allowOrigin \in CORSAllowedOrigins \cup {""}
    /\ ThroughCORS =>
          resp.allowOrigin = IF req.origin \in CORSAllowedOrigins THEN req.origin ELSE ""
    /\ (ThroughCORS /\ req.method = "OPTIONS") => Preflighted
    /\ Preflighted =>
          /\ req.method = "OPTIONS"
          /\ resp.status = 204 /\ resp.body = "" /\ resp.writes = 1
          /\ <<"handler", "Router">> \notin Events
          /\ \A i \in 1..Len(chain) :
                <<"pre", chain[i]>> \in Events =>
                    \E j \in 1..Len(chain) : chain[j] = "CORS" /\ i < j

\* C11 witness: a preflight from an origin off the allow-list, answered by the
\* CORS decorator of main's chain without the origin
C11_Witness ==
    /\ Finished /\ Preflighted /\ chain = middlewareChain
    /\ req.origin = "https://evil.example" /\ resp.allowOrigin = ""
    /\ resp.status = 204 /\ Len(trace) = 5

(* ========================= properties of the router ===================== *)
Registered(r) == \E i \in 1..Len(SetupRoutes) :
                    SetupRoutes[i].method = r.method /\ SetupRoutes[i].path = r.path
Routed == <<"handler", "Router">> \in Events    \* the request reached the router
Answered == Finished /\ Routed

\* C12: a request for a method and path that is not a registered route, POST
\* /health included, is answered 404 with the JSON error body of NOT_FOUND, and
\* no handler faults.
C12_UnmatchedGets404Json ==
    (Answered /\ ~Registered(req)) =>
        /\ resp.status = StatusNotFound
        /\ resp.body \in {ErrorBody(AppError(ErrCodeNotFound, m, StatusNotFound)) :
                            m \in {"Resource not found", "Not found", "not found"}}
        /\ ~\E e \in Events : e[1] \in {"panic", "aborted"}

\* C13: the router runs at most one route handler per request, never one
\* twice, and which one depends on method and path only, whatever the order
\* the routes were registered in: GET /health runs healthCheckHandler and gets
\* 200 with the healthy body, GET /api/v1/status runs statusHandler and gets 200
\* with the running body, and a request that matches no route runs no handler.
C13_OneHandlerByMethodAndPath ==
    /\ Len(invoked) <= 1
    /\ ~Routed => invoked = <<>>
    /\ (Routed /\ req.method = "GET" /\ req.path = "/health") =>
          /\ invoked = <<"healthCheckHandler">>
          /\ resp.status = 200 /\ resp.writes = 1
          /\ resp.body = "{\"status\":\"healthy\",\"service\":\"go-boilerplate\"}"
    /\ (Routed /\ req.method = "GET" /\ req.path = "/api/v1/status") =>
          /\ invoked = <<"statusHandler">>
          /\ resp.status = 200 /\ resp.writes = 1
          /\ resp.body = "{\"status\":\"running\",\"version\":\"1.0.0\"}"
    /\ (Routed /\ req.method \notin {"GET", "HEAD"}) => invoked = <<>>
    /\ (Routed /\ req.path \notin {"/health", "/api/v1/status"}) => invoked = <<>>

\* C13 witness: GET /api/v1/status answered by statusHandler on a mux where the
\* status route was registered first
C13_Witness ==
    /\ Answered /\ req.method = "GET" /\ req.path = "/api/v1/status"
    /\ mux[1].path = "/api/v1/status" /\ mux # SetupRoutes
    /\ invoked = <<"statusHandler">> /\ resp.status = 200

(* =================== properties of main and the Server ================== *)
Stopped == stop.state = "returned"
TimedOut == Stopped /\ stop.err.cause = "deadline_exceeded"

\* C14: once Stop is called the listener accepts nothing; when Stop returns nil
\* no request is left running; when a request outlasts the deadline Stop
\* returns the timeout error and the connection of that request has been
\* closed by then.
C14_StopDrainsOrForces ==
    /\ stop.state # "idle" => listener # "open"
    /\ (Stopped /\ stop.err = NoErr) => Active = {}
    /\ (Stopped /\ stop.err # NoErr) =>
          /\ stop.err = Wrap("failed to shutdown HTTP server", "deadline_exceeded")
          /\ Active = {}

\* C15: while Start has not returned and the listener is bound, the listener is
\* open and Stop has not been called; Start returns nil only when Stop ended
\* the serving loop (ListenAndServe returned ErrServerClosed); when binding or
\* serving failed, Start returns that fault wrapped, never nil.
C15_StartSurfacesFaults ==
    /\ start.state = "serving" => listener = "open" /\ stop.state = "idle"
    /\ start.state = "returned" =>
          /\ start.err = NoErr <=> start.cause = "ErrServerClosed"
          /\ start.err = NoErr => stop.state # "idle"
          /\ start.cause # "ErrServerClosed" =>
                /\ start.cause \in {"bind_error", "accept_error"}
                /\ start.err = [msg |-> "failed to start HTTP server", cause |-> start.cause]

\* C15 witness: the listener failed after a request had been served, and Start
\* returned the fault
C15_Witness ==
    /\ start.state = "returned" /\ start.err.cause = "accept_error"
    /\ \E c \in 1..MaxConns : conn[c] = "done"
    /\ exit = "running"

\* C16: when the process has ended after a termination signal, whether Stop
\* returned nil or the timeout error, the pool has been closed; and the pool is
\* closed only when the listener is closed and no request is running.
C16_PoolClosedAfterServer ==
    /\ (exit # "running" /\ Stopped) => db = "closed"
    /\ db = "closed" => listener # "open" /\ Active = {} /\ Stopped

\* C17: when ValidateStruct reports problems for the loaded configuration,
\* LoadConfig does not return it to main with a nil error, nothing is
\* constructed from it and the process ends.
C17_InvalidConfigStops ==
    ValidateStruct(loaded.cfg) # <<>> =>
        /\ ~(loaded.returned /\ loaded.err = NoErr)
        /\ made = {}
        /\ listener = "none"

(* ==================== properties of concurrent callers ================== *)
Returned(c) == sess[c].state = "returned"
Ran(c) == \E i \in 1..Len(order) : order[i].c = c
Collides(c) == \E u \in before : u.id # sess[c].call.id /\ u.email = sess[c].call.email
RowOf(id) == {u \in users : u.id = id}

\* two Updates of one existing id with different emails, both run by the
\* database, c's first, both returned, no context cancelled
RacedUpdates(c, d) ==
    /\ c # d /\ Len(order) = 2 /\ order[1].c = c /\ order[2].c = d
    /\ sess[c].call.op = "Update" /\ sess[d].call.op = "Update"
    /\ sess[c].call.id = sess[d].call.id /\ sess[c].call.id \in IdsOf(before)
    /\ sess[c].call.email # sess[d].call.email
    /\ Returned(c) /\ Returned(d) /\ ~sess[c].cancelled /\ ~sess[d].cancelled

\* C18: of two concurrent Updates of one existing id with different emails,
\* each succeeds unless its email is the email of another row, and returns a
\* row with its own email; the stored row is the row returned to the one whose
\* statement ran last (its email, updated_at the clock at that statement), or
\* to the other when the last failed; id and created_at are kept and every
\* other row is left as it was.
C18_LastWriteWins ==
    \A c, d \in Clients : RacedUpdates(c, d) =>
        LET id == sess[c].call.id
            old == CHOOSE u \in before : u.id = id
        IN  /\ \A x \in {c, d} :
                  IF Collides(x) THEN sess[x].err.cause = "unique_violation" /\ sess[x].user = {}
                  ELSE /\ sess[x].err = NoErr
                       /\ \E r \in sess[x].user :
                             r.id = id /\ r.email = sess[x].call.email
                             /\ r.created_at = old.created_at
            /\ ~Collides(d) => RowOf(id) = sess[d].user
                               /\ \A r \in RowOf(id) : r.updated_at = order[2].t
            /\ (Collides(d) /\ ~Collides(c)) => RowOf(id) = sess[c].user
                               /\ \A r \in RowOf(id) : r.updated_at = order[1].t
            /\ (Collides(d) /\ Collides(c)) => RowOf(id) = {old}
            /\ users \ RowOf(id) = before \ {old}
            /\ Cardinality(RowOf(id)) = 1

\* C18 witness: caller 2's Update ran at clock 0 and caller 1's at clock 1, both
\* succeeded, the row is caller 1's, and the other row is untouched
C18_Witness ==
    /\ RacedUpdates(2, 1) /\ order[1].t < order[2].t
    /\ sess[1].err = NoErr /\ sess[2].err = NoErr
    /\ RowOf(sess[1].call.id) = sess[1].user
    /\ sess[1].user # sess[2].user
    /\ Cardinality(users) = 2

\* the errors the pool, the statement and the cursor report
PoolErrors == {"conn_error", "context_canceled", "unique_violation", "no_rows",
               "scan_error", "rows_error"}

\* C19: a call makes one call to the pool and the database runs at most one
\* statement for it; a call that ends with an error returns no user and no
\* list, and its error is the error reported (connection, context, constraint,
\* no rows, scan, rows) wrapped with the context of the operation; a call that
\* ends without error returns what its one statement produced.
C19_OneStatementErrorsWrapped ==
    \A c \in Clients :
        /\ sess[c].sent = IF sess[c].state = "idle" THEN 0 ELSE 1
        /\ Cardinality({i \in 1..Len(order) : order[i].c = c}) <= 1
        /\ (Returned(c) /\ sess[c].err # NoErr) =>
              /\ sess[c].user = {} /\ sess[c].list = <<>>
              /\ sess[c].err.cause \in PoolErrors
              /\ sess[c].err.cause \in {"unique_violation", "no_rows"} =>
                    sess[c].err.cause = ScanCause(sess[c].reply.out, sess[c].reply.cause)
              /\ sess[c].err.msg \in
                    IF sess[c].call.op = "List"
                    THEN {"failed to list users", "failed to scan user", "rows error"}
                    ELSE {OpMsg(sess[c].call.op)}
        /\ (Returned(c) /\ sess[c].err = NoErr) =>
              /\ Ran(c)
              /\ sess[c].user = sess[c].reply.out /\ sess[c].list = sess[c].reply.page

\* C19 witness: a Create refused for its email, returned wrapped, next to a
\* List that ended on a Scan error
C19_Witness ==
    \E c, d \in Clients :
        /\ Returned(c) /\ sess[c].call.op = "Create"
        /\ sess[c].err = [msg |-> "failed to create user", cause |-> "unique_violation"]
        /\ Returned(d) /\ sess[d].call.op = "List"
        /\ sess[d].err = [msg |-> "failed to scan user", cause |-> "scan_error"]

\* C20: a call whose context is cancelled while it waits for a connection or
\* for the reply to its statement ends with an error, holding no connection; a
\* List that holds an open cursor ends, and whatever way it ends (page, Scan
\* error, rows error) it holds no connection afterwards; no call that has
\* returned holds a connection.
C20_CancelledCallsRelease ==
    \A c \in Clients :
        /\ (sess[c].cancelled /\ sess[c].state \in {"called", "outstanding", "replied"})
              ~> (Returned(c) /\ sess[c].err # NoErr /\ ~sess[c].slot)
        /\ (sess[c].state = "rows") ~> (Returned(c) /\ ~sess[c].slot)
        /\ [](Returned(c) => ~sess[c].slot)

\* C20 witness: caller 1 was cancelled with its statement under way, returned
\* the context's error, and caller 2 holds the connection it gave up
C20_Witness ==
    /\ Returned(1) /\ sess[1].err.cause = "context_canceled" /\ Ran(1)
    /\ ~sess[1].slot /\ sess[2].slot /\ sess[2].state = "rows"

====
